---- MODULE Spec2Model ----
(***************************************************************************)
(* Model of trigger-workflow-api.py: a script that reads GITHUB_TOKEN,     *)
(* issues one POST to GitHub's workflow_dispatch endpoint and maps the     *)
(* response status code to a message and a process exit status.            *)
(*                                                                         *)
(* Conventions.                                                            *)
(*  - A Python value that may be None is a sequence of length <= 1:        *)
(*    <<>> is None, <<v>> is the value v.                                  *)
(*  - Standard output and standard error are strings; print(s) appends s   *)
(*    and a newline.  Standard output is assumed to accept every glyph     *)
(*    (a UTF-8 terminal).                                                  *)
(*  - The lexer of TLA+ takes ASCII only, so each pictograph of the        *)
(*    script's messages is written as its short code between colons        *)
(*    (":x:" for the cross mark, and so on).                               *)
(*  - The json= argument of requests.post is kept as the dictionary the    *)
(*    script builds; its serialisation is the library's.                   *)
(***************************************************************************)
EXTENDS Integers, Sequences, FiniteSets, TLC

VARIABLES
    env,        \* the process environment: variable name -> optional string
    pc,         \* position of the script
    token,      \* __main__'s token (line 57)
    url,        \* trigger_workflow's url (line 20)
    headers,    \* trigger_workflow's headers (lines 22-26)
    payload,    \* trigger_workflow's payload (lines 28-33)
    calls,      \* the invocations of requests.post made so far
    response,   \* trigger_workflow's response (line 39)
    raised,     \* the exception propagating out of requests.post, if any
    success,    \* __main__'s success (line 68)
    stdout,     \* everything printed so far
    stderr,     \* the interpreter's report of an unhandled exception
    exitCode    \* the process exit status once the process has ended

vars == <<env, pc, token, url, headers, payload, calls, response, raised,
          success, stdout, stderr, exitCode>>

-----------------------------------------------------------------------------
(* Bounds of the model *)

MaxTokenLen == 2

-----------------------------------------------------------------------------
(* Python values and helpers *)

None == <<>>
Some(v) == <<v>>

\* n copies of the string s
RECURSIVE Repeat(_, _)
Repeat(s, n) == IF n = 0 THEN "" ELSE s \o Repeat(s, n - 1)

\* s[i..j] as a string (the empty string for an empty range)
Slice(s, i, j) == IF j < i THEN "" ELSE SubSeq(s, i, j)

\* Python's  sub in s
Contains(s, sub) ==
    \E i \in 1..(Len(s) - Len(sub) + 1) : Slice(s, i, i + Len(sub) - 1) = sub

\* Python's  s.startswith(p)
StartsWith(s, p) == Len(p) <= Len(s) /\ Slice(s, 1, Len(p)) = p

\* str(n) for an integer n >= 0, as an f-string formats it
RECURSIVE IntToStr(_)
IntToStr(n) ==
    IF n < 10 THEN Slice("0123456789", n + 1, n + 1)
    ELSE IntToStr(n \div 10) \o Slice("0123456789", (n % 10) + 1, (n % 10) + 1)

\* print(s): the text and a newline
Line(s) == s \o "\n"

\* Python truthiness of an optional string:  bool(t)
Truthy(t) == t # None /\ t[1] # ""

-----------------------------------------------------------------------------
(* The script's configuration, lines 12-15 *)

OWNER == "cedyson8-creator"
REPO == "traffic-booster-app"
WORKFLOW_FILE == "build-release.yml"
BRANCH == "main"

-----------------------------------------------------------------------------
(* The inputs the model enumerates *)

\* Values of GITHUB_TOKEN: unset, empty, and non-empty strings.
TokenValues == {None} \cup { Some(Repeat("x", n)) : n \in 0..MaxTokenLen }

\* Other variables of the environment that a configurable script might read.
OtherVars == {"GITHUB_REPOSITORY", "GITHUB_REF"}
OtherValues == {None, Some("someone/elsewhere")}

Environments ==
    { [n \in {"GITHUB_TOKEN"} \cup OtherVars |->
          IF n = "GITHUB_TOKEN" THEN t ELSE o[n]] :
        t \in TokenValues, o \in [OtherVars -> OtherValues] }

\* os.getenv(name)
GetEnv(name) == IF name \in DOMAIN env THEN env[name] ELSE None

\* Status codes a server may answer with.
StatusCodes == {200, 204, 302, 400, 401, 403, 404, 422, 500, 503}

\* Response bodies a server may answer with.
Bodies == {"", "internal error", "{\"message\": \"Bad credentials\"}"}

\* Exceptions requests.post may raise instead of returning.
Faults == {"ConnectionError", "SSLError", "Timeout"}

-----------------------------------------------------------------------------
(* The texts the script prints *)

\* the branch line printed before the repository line
TargetLines_BranchFirst(wf, owner, repo, branch) ==
    Line(":arrows_counterclockwise: Triggering workflow: " \o wf)
    \o Line(":herb: Branch: " \o branch)
    \o Line(":round_pushpin: Repository: " \o owner \o "/" \o repo)

\* lines 35-37
TargetLines(wf, owner, repo, branch) ==
    Line(":arrows_counterclockwise: Triggering workflow: " \o wf)
    \o Line(":round_pushpin: Repository: " \o owner \o "/" \o repo)
    \o Line(":herb: Branch: " \o branch)

\* the link built with repository and owner exchanged
SuccessLines_SwappedPath ==
    Line(":white_check_mark: Workflow triggered successfully!")
    \o Line(":bar_chart: Check progress at: https://github.com/"
            \o REPO \o "/" \o OWNER \o "/actions")

\* lines 42-43
SuccessLines ==
    Line(":white_check_mark: Workflow triggered successfully!")
    \o Line(":bar_chart: Check progress at: https://github.com/"
            \o OWNER \o "/" \o REPO \o "/actions")

\* line 46
AuthFailedLines ==
    Line(":x: Authentication failed. Invalid or expired token.")

\* line 49
NotFoundLines ==
    Line(":x: Workflow not found. Make sure the workflow file exists.")

\* the status code alone, the body dropped
ErrorLines_NoBody(r) == Line(":x: Error: " \o IntToStr(r.status_code))

\* lines 52-53
ErrorLines(r) ==
    Line(":x: Error: " \o IntToStr(r.status_code)) \o Line(r.text)

\* lines 60-65
InstructionLines ==
    Line(":x: GITHUB_TOKEN environment variable not set")
    \o Line(":memo: Instructions:")
    \o Line("1. Create a Personal Access Token at: https://github.com/settings/tokens")
    \o Line("2. Grant 'actions' scope")
    \o Line("3. Run: export GITHUB_TOKEN='your_token_here'")
    \o Line("4. Then run this script again")

\* the interpreter's report of an exception nobody caught
Traceback(e) ==
    Line("Traceback (most recent call last):") \o Line("requests.exceptions." \o e)

-----------------------------------------------------------------------------
(* The request trigger_workflow builds *)

\* the repository taken from the environment when it names one
BuildUrl_FromEnv ==
    "https://api.github.com/repos/"
    \o (IF GetEnv("GITHUB_REPOSITORY") # None
        THEN GetEnv("GITHUB_REPOSITORY")[1] ELSE OWNER \o "/" \o REPO)
    \o "/actions/workflows/" \o WORKFLOW_FILE \o "/dispatches"

\* line 20
BuildUrl ==
    "https://api.github.com/repos/" \o OWNER \o "/" \o REPO
    \o "/actions/workflows/" \o WORKFLOW_FILE \o "/dispatches"

\* the older "token" authorization scheme in place of "Bearer"
BuildHeaders_TokenScheme(tok) ==
    ("Accept" :> "application/vnd.github+json")
    @@ ("Authorization" :> ("token " \o tok))
    @@ ("X-GitHub-Api-Version" :> "2022-11-28")

\* lines 22-26
BuildHeaders(tok) ==
    ("Accept" :> "application/vnd.github+json")
    @@ ("Authorization" :> ("Bearer " \o tok))
    @@ ("X-GitHub-Api-Version" :> "2022-11-28")

\* lines 28-33
BuildPayload == [ref |-> BRANCH, inputs |-> [version |-> "1.0.0"]]

-----------------------------------------------------------------------------
(* The script, statement by statement *)

Init ==
    /\ env \in Environments
    /\ pc = "main"
    /\ token = None
    /\ url = None
    /\ headers = None
    /\ payload = None
    /\ calls = <<>>
    /\ response = None
    /\ raised = None
    /\ success = None
    /\ stdout = ""
    /\ stderr = ""
    /\ exitCode = None

\* line 57: token = os.getenv("GITHUB_TOKEN")
ReadToken ==
    /\ pc = "main"
    /\ token' = GetEnv("GITHUB_TOKEN")
    /\ pc' = "check"
    /\ UNCHANGED <<env, url, headers, payload, calls, response, raised,
                   success, stdout, stderr, exitCode>>

\* a test for None alone, which lets the empty string through
TokenMissing_NoneOnly(t) == t = None

\* the condition of line 59:  not token
TokenMissing(t) == ~Truthy(t)

\* lines 59-66: the instructions, then sys.exit(1)
ExitMissingToken ==
    /\ pc = "check"
    /\ TokenMissing(token)
    /\ stdout' = stdout \o InstructionLines
    /\ exitCode' = Some(1)
    /\ pc' = "exited"
    /\ UNCHANGED <<env, token, url, headers, payload, calls, response,
                   raised, success, stderr>>

\* line 68 enters trigger_workflow(token); lines 20-33 build the request
BuildRequest ==
    /\ pc = "check"
    /\ ~TokenMissing(token)
    /\ url' = Some(BuildUrl)
    /\ headers' = Some(BuildHeaders(token[1]))
    /\ payload' = Some(BuildPayload)
    /\ pc' = "announce"
    /\ UNCHANGED <<env, token, calls, response, raised, success, stdout,
                   stderr, exitCode>>

\* lines 35-37: the three status lines
Announce ==
    /\ pc = "announce"
    /\ stdout' = stdout \o TargetLines(WORKFLOW_FILE, OWNER, REPO, BRANCH)
    /\ pc' = "post"
    /\ UNCHANGED <<env, token, url, headers, payload, calls, response,
                   raised, success, stderr, exitCode>>

\* the argument list of line 39
PostArgs == [url |-> url[1], json |-> payload[1], headers |-> headers[1]]

\* line 39: requests.post(url, json=payload, headers=headers) is called
PostCall ==
    /\ pc = "post"
    /\ calls' = Append(calls, PostArgs)
    /\ pc' = "awaiting"
    /\ UNCHANGED <<env, token, url, headers, payload, response, raised,
                   success, stdout, stderr, exitCode>>

\* line 39: the call returns a response
PostReturn ==
    /\ pc = "awaiting"
    /\ \E code \in StatusCodes, body \in Bodies :
           response' = Some([status_code |-> code, text |-> body])
    /\ pc' = "respond"
    /\ UNCHANGED <<env, token, url, headers, payload, calls, raised,
                   success, stdout, stderr, exitCode>>

\* the call is made once more after a fault
PostRaise_Retry ==
    /\ pc = "awaiting"
    /\ \E e \in Faults : raised' = Some(e)
    /\ pc' = IF Len(calls) < 2 THEN "post" ELSE "unwinding"
    /\ UNCHANGED <<env, token, url, headers, payload, calls, response,
                   success, stdout, stderr, exitCode>>

\* line 39: the call raises; no handler encloses it
PostRaise ==
    /\ pc = "awaiting"
    /\ \E e \in Faults : raised' = Some(e)
    /\ pc' = "unwinding"
    /\ UNCHANGED <<env, token, url, headers, payload, calls, response,
                   success, stdout, stderr, exitCode>>

\* the 401 and 404 branches missing: every failure reported with its body
OutcomeLines_NoSpecialCases(r) ==
    IF r.status_code = 204 THEN SuccessLines ELSE ErrorLines(r)

\* lines 41-54: what trigger_workflow prints for a response
OutcomeLines(r) ==
    IF r.status_code = 204 THEN SuccessLines
    ELSE IF r.status_code = 401 THEN AuthFailedLines
    ELSE IF r.status_code = 404 THEN NotFoundLines
    ELSE ErrorLines(r)

\* any status below 400 taken for success
Outcome_AnyOk(r) == r.status_code < 400

\* lines 41-54: what trigger_workflow returns for a response
Outcome(r) == r.status_code = 204

\* lines 41-54 and the assignment of line 68
HandleResponse ==
    /\ pc = "respond"
    /\ stdout' = stdout \o OutcomeLines(response[1])
    /\ success' = Some(Outcome(response[1]))
    /\ pc' = "return"
    /\ UNCHANGED <<env, token, url, headers, payload, calls, response,
                   raised, stderr, exitCode>>

\* the argument of sys.exit at line 69
ExitStatus(ok) == IF ok THEN 0 ELSE 1

\* line 69: sys.exit(0 if success else 1)
Exit ==
    /\ pc = "return"
    /\ exitCode' = Some(ExitStatus(success[1]))
    /\ pc' = "exited"
    /\ UNCHANGED <<env, token, url, headers, payload, calls, response,
                   raised, success, stdout, stderr>>

\* the fault caught and reported like an unexpected response
Uncaught_Reported ==
    /\ pc = "unwinding"
    /\ stdout' = stdout \o Line(":x: Error: " \o raised[1])
    /\ exitCode' = Some(1)
    /\ pc' = "exited"
    /\ UNCHANGED <<env, token, url, headers, payload, calls, response,
                   raised, success, stderr>>

\* lines 68-69 are left by the exception: traceback, exit status 1
Uncaught ==
    /\ pc = "unwinding"
    /\ stderr' = stderr \o Traceback(raised[1])
    /\ exitCode' = Some(1)
    /\ pc' = "exited"
    /\ UNCHANGED <<env, token, url, headers, payload, calls, response,
                   raised, success, stdout>>

Next ==
    \/ ReadToken
    \/ ExitMissingToken
    \/ BuildRequest
    \/ Announce
    \/ PostCall
    \/ PostReturn
    \/ PostRaise
    \/ HandleResponse
    \/ Exit
    \/ Uncaught

Spec == Init /\ [][Next]_vars

\* The steps the script takes by itself.  The call of line 39 has no timeout,
\* so nothing obliges it to return or to raise.
Local ==
    \/ ReadToken
    \/ ExitMissingToken
    \/ BuildRequest
    \/ Announce
    \/ PostCall
    \/ HandleResponse
    \/ Exit
    \/ Uncaught

LiveSpec == Init /\ [][Next]_vars /\ WF_vars(Local)

TypeOK ==
    /\ env \in Environments
    /\ pc \in {"main", "check", "announce", "post", "awaiting", "respond",
               "unwinding", "return", "exited"}
    /\ Len(token) <= 1
    /\ Len(calls) <= 1
    /\ Len(response) <= 1
    /\ Len(exitCode) <= 1

-----------------------------------------------------------------------------
(* The texts and values the properties compare the run against, written    *)
(* out in full rather than assembled from the script's configuration.      *)

ExpectedUrl ==
    "https://api.github.com/repos/cedyson8-creator/traffic-booster-app/actions/workflows/build-release.yml/dispatches"

ExpectedBody == [ref |-> "main", inputs |-> [version |-> "1.0.0"]]

ExpectedTargetText ==
    ":arrows_counterclockwise: Triggering workflow: build-release.yml\n"
    \o ":round_pushpin: Repository: cedyson8-creator/traffic-booster-app\n"
    \o ":herb: Branch: main\n"

ExpectedSuccessText ==
    ":white_check_mark: Workflow triggered successfully!\n"
    \o ":bar_chart: Check progress at: https://github.com/cedyson8-creator/traffic-booster-app/actions\n"

\* GITHUB_TOKEN is unset or empty in the environment the run started with
EnvTokenAbsent == env["GITHUB_TOKEN"] = <<>> \/ env["GITHUB_TOKEN"] = <<"">>

\* trigger_workflow has finished handling a response
Handled == pc \in {"return", "exited"} /\ response # <<>>

\* the status code of the response received
StatusIs(code) == response # <<>> /\ response[1].status_code = code

\* one of the messages of the status-code table is in the output
OutcomePrinted ==
    \/ Contains(stdout, "Workflow triggered successfully!")
    \/ Contains(stdout, "Authentication failed")
    \/ Contains(stdout, "Workflow not found")
    \/ Contains(stdout, ":x: Error:")

-----------------------------------------------------------------------------
(* C1: with GITHUB_TOKEN unset or empty, requests.post is never called,    *)
(* the run never reaches the request step, and the run ends with exit      *)
(* status 1.                                                               *)
C1_MissingTokenExitsOneWithoutRequest ==
    /\ [](EnvTokenAbsent =>
            /\ calls = <<>>
            /\ pc \in {"main", "check", "exited"}
            /\ (pc = "exited" => exitCode = <<1>>))
    /\ (EnvTokenAbsent ~> (pc = "exited" /\ exitCode = <<1>>))

C1_Witness ==
    /\ env["GITHUB_TOKEN"] = <<"">>
    /\ pc = "exited"
    /\ exitCode = <<1>>
    /\ calls = <<>>

(* C2: a finished run has exit status 0 exactly when requests.post was     *)
(* called and answered with status 204; every other finished run has exit  *)
(* status 1.                                                               *)
C2_ExitZeroIffAccepted ==
    pc = "exited" =>
        /\ exitCode \in {<<0>>, <<1>>}
        /\ (exitCode = <<0>> <=> (Len(calls) = 1 /\ StatusIs(204)))

C2_Witness == pc = "exited" /\ exitCode = <<0>> /\ StatusIs(204)

(* C3: requests.post is called at most once in a run; once a response or   *)
(* a fault has come back the script is past the request step for good; a   *)
(* finished run with a non-empty token made exactly one call.              *)
C3_AtMostOneRequest ==
    /\ Len(calls) <= 1
    /\ (response # <<>> \/ raised # <<>>) =>
           pc \in {"respond", "return", "unwinding", "exited"}
    /\ (pc = "exited" /\ ~EnvTokenAbsent) => Len(calls) = 1

C3_Witness == pc = "exited" /\ raised # <<>> /\ Len(calls) = 1

(* C4: whatever the environment holds, every request goes to the           *)
(* dispatches URL of build-release.yml in cedyson8-creator/                *)
(* traffic-booster-app with the body ref "main", inputs version "1.0.0".   *)
C4_RequestTargetFixed ==
    \A i \in 1..Len(calls) :
        /\ calls[i].url = ExpectedUrl
        /\ calls[i].json = ExpectedBody

C4_Witness ==
    /\ Len(calls) = 1
    /\ env["GITHUB_REPOSITORY"] # <<>>
    /\ env["GITHUB_REF"] # <<>>
    /\ env["GITHUB_TOKEN"] = <<"xx">>

(* C5: for a status other than 204, 401 and 404 the output holds the       *)
(* decimal status code and the response body as received, and the exit     *)
(* status is 1; status 500 with body "internal error" gives output         *)
(* holding "500" and "internal error".                                     *)
C5_OtherStatusReported ==
    (Handled /\ response[1].status_code \notin {204, 401, 404}) =>
        /\ stdout = ExpectedTargetText
                    \o ":x: Error: " \o IntToStr(response[1].status_code) \o "\n"
                    \o response[1].text \o "\n"
        /\ (response[1] = [status_code |-> 500, text |-> "internal error"] =>
                /\ Contains(stdout, "500")
                /\ Contains(stdout, "internal error"))
        /\ (pc = "exited" => exitCode = <<1>>)

C5_Witness ==
    /\ pc = "exited"
    /\ response = <<[status_code |-> 500, text |-> "internal error"]>>
    /\ exitCode = <<1>>

(* C6: for status 401 the output reports an authentication failure         *)
(* (invalid or expired token), for status 404 that the workflow was not    *)
(* found; in both cases nothing else follows the status lines (neither     *)
(* the success message nor the response body) and the exit status is 1.    *)
C6_AuthAndNotFoundReported ==
    /\ (Handled /\ StatusIs(401)) =>
           stdout = ExpectedTargetText
                    \o ":x: Authentication failed. Invalid or expired token.\n"
    /\ (Handled /\ StatusIs(404)) =>
           stdout = ExpectedTargetText
                    \o ":x: Workflow not found. Make sure the workflow file exists.\n"
    /\ (Handled /\ (StatusIs(401) \/ StatusIs(404))) =>
           /\ ~Contains(stdout, "Workflow triggered successfully!")
           /\ (response[1].text # "" => ~Contains(stdout, response[1].text))
           /\ (pc = "exited" => exitCode = <<1>>)

C6_Witness ==
    /\ pc = "exited"
    /\ response = <<[status_code |-> 401, text |-> "{\"message\": \"Bad credentials\"}"]>>
    /\ exitCode = <<1>>

(* C7: for status 204 the output ends with the success message followed    *)
(* by the Actions link, which holds the path                               *)
(* "cedyson8-creator/traffic-booster-app", and the exit status is 0; the   *)
(* success message is in the output of no run without a 204 response.      *)
C7_SuccessOnlyFor204 ==
    /\ (Handled /\ StatusIs(204)) =>
           /\ stdout = ExpectedTargetText \o ExpectedSuccessText
           /\ Contains(stdout, "/cedyson8-creator/traffic-booster-app/actions\n")
           /\ (pc = "exited" => exitCode = <<0>>)
    /\ Contains(stdout, "Workflow triggered successfully!") => StatusIs(204)

C7_Witness ==
    /\ pc = "exited"
    /\ StatusIs(204)
    /\ exitCode = <<0>>
    /\ Contains(stdout, "Workflow triggered successfully!")

(* C8: an exception raised by requests.post is not caught: no outcome      *)
(* message is printed, no response is handled, no further call is made,    *)
(* and the run ends with a non-zero exit status.                           *)
C8_FaultPropagates ==
    /\ [](raised # <<>> =>
            /\ pc \in {"unwinding", "exited"}
            /\ Len(calls) = 1
            /\ response = <<>>
            /\ stdout = ExpectedTargetText
            /\ ~OutcomePrinted
            /\ (pc = "exited" => exitCode # <<>> /\ exitCode # <<0>>))
    /\ (raised # <<>> ~> (pc = "exited" /\ exitCode # <<0>>))

C8_Witness ==
    /\ pc = "exited"
    /\ raised = <<"SSLError">>
    /\ exitCode = <<1>>
    /\ stderr # ""

(* C9: with a non-empty token the workflow, repository and branch lines    *)
(* are the first things printed, in that order, and are all printed        *)
(* before requests.post is called; with a missing or empty token none of   *)
(* them is printed.                                                        *)
C9_StatusLinesFirst ==
    /\ (pc \in {"post", "awaiting", "respond", "unwinding", "return", "exited"}
            /\ ~EnvTokenAbsent) =>
           StartsWith(stdout, ExpectedTargetText)
    /\ Len(calls) > 0 => StartsWith(stdout, ExpectedTargetText)
    /\ (OutcomePrinted /\ ~EnvTokenAbsent) => StartsWith(stdout, ExpectedTargetText)
    /\ EnvTokenAbsent =>
           /\ ~Contains(stdout, "Triggering workflow:")
           /\ ~Contains(stdout, "Repository:")
           /\ ~Contains(stdout, "Branch:")

C9_Witness == pc = "awaiting" /\ Len(calls) = 1 /\ stdout = ExpectedTargetText

(* C10: every request carries Authorization "Bearer <token>" where         *)
(* <token> is the non-empty value of GITHUB_TOKEN the run started with,    *)
(* Accept "application/vnd.github+json" and X-GitHub-Api-Version           *)
(* "2022-11-28"; no request carries an empty bearer token.                 *)
C10_HeadersCarryToken ==
    \A i \in 1..Len(calls) :
        /\ env["GITHUB_TOKEN"] # <<>>
        /\ env["GITHUB_TOKEN"][1] # ""
        /\ DOMAIN calls[i].headers = {"Accept", "Authorization", "X-GitHub-Api-Version"}
        /\ calls[i].headers["Authorization"] = "Bearer " \o env["GITHUB_TOKEN"][1]
        /\ calls[i].headers["Authorization"] # "Bearer "
        /\ calls[i].headers["Accept"] = "application/vnd.github+json"
        /\ calls[i].headers["X-GitHub-Api-Version"] = "2022-11-28"

C10_Witness ==
    /\ Len(calls) = 1
    /\ calls[1].headers["Authorization"] = "Bearer xx"

====
